---- MODULE Spec2Model ----
(***************************************************************************)
(* Model of internal/bbolthelper (DBStore over a bbolt file): the record   *)
(* codec, Put/Get, FindSimilar, ImportFromCSV and Compact.                 *)
(*                                                                         *)
(* A Go string is modelled as the sequence of its Unicode code points; the *)
(* strings of the model are the valid UTF-8 strings over Runes.  len(s) of *)
(* Go is ByteLen(s), the number of UTF-8 bytes.  A []byte is a sequence of *)
(* numbers 0..255.                                                         *)
(***************************************************************************)
EXTENDS Integers, Sequences, FiniteSets, TLC

\* ------------------------------------------------------------------ bounds
MaxKeyLen == 1
MaxScanKeyLen == 2
MaxScanKeys == 4
MaxDist == 1

\* 'A', 'a', U+00E9 (two bytes in UTF-8)
Runes == {65, 97, 233}

\* the strings of at most n code points of rs
StrOver(rs, n) == UNION {[1..i -> rs] : i \in 0..n}

\* ----------------------------------------------------------------- strings
Min(a, b) == IF a < b THEN a ELSE b

\* abs, bbolthelper.go:248
abs(x) == IF x < 0 THEN -x ELSE x

\* number of bytes of one code point in UTF-8 (code points below U+0800)
RuneLen(r) == IF r < 128 THEN 1 ELSE 2

\* len(s) of a Go string: its length in bytes
RECURSIVE ByteLen(_)
ByteLen(s) == IF s = <<>> THEN 0 ELSE RuneLen(Head(s)) + ByteLen(Tail(s))

\* []byte(s): the UTF-8 encoding
RECURSIVE Utf8Encode(_)
Utf8Encode(s) ==
    IF s = <<>> THEN <<>>
    ELSE (IF Head(s) < 128 THEN <<Head(s)>>
          ELSE <<192 + (Head(s) \div 64), 128 + (Head(s) % 64)>>)
         \o Utf8Encode(Tail(s))

\* string(b) read as code points; an invalid byte decodes to U+FFFD
RECURSIVE Utf8Decode(_)
Utf8Decode(b) ==
    IF b = <<>> THEN <<>>
    ELSE IF Head(b) < 128 THEN <<Head(b)>> \o Utf8Decode(Tail(b))
    ELSE IF /\ Head(b) >= 194 /\ Head(b) < 224 /\ Len(b) >= 2
            /\ b[2] >= 128 /\ b[2] < 192
         THEN <<(Head(b) - 192) * 64 + (b[2] - 128)>> \o Utf8Decode(Tail(Tail(b)))
    ELSE <<65533>> \o Utf8Decode(Tail(b))

\* unicode.ToLower on the code points of the model ('A'..'Z', U+00C0..U+00DE)
ToLowerRune(r) ==
    IF r >= 65 /\ r <= 90 THEN r + 32
    ELSE IF r >= 192 /\ r <= 222 /\ r # 215 THEN r + 32
    ELSE r

\* strings.ToLower
ToLower(s) == [i \in 1..Len(s) |-> ToLowerRune(s[i])]

\* bytes.Compare(a, b) < 0: the key order of a bbolt bucket.  On valid UTF-8
\* the byte order is the code point order.
RECURSIVE StrLess(_, _)
StrLess(a, b) ==
    IF b = <<>> THEN FALSE
    ELSE IF a = <<>> THEN TRUE
    ELSE IF Head(a) # Head(b) THEN Head(a) < Head(b)
    ELSE StrLess(Tail(a), Tail(b))

\* levenshtein.ComputeDistance: unit-cost edit distance over the runes
RECURSIVE ComputeDistance(_, _)
ComputeDistance(a, b) ==
    IF a = <<>> THEN Len(b)
    ELSE IF b = <<>> THEN Len(a)
    ELSE LET del == ComputeDistance(Tail(a), b) + 1
             ins == ComputeDistance(a, Tail(b)) + 1
             sub == ComputeDistance(Tail(a), Tail(b))
                        + (IF Head(a) = Head(b) THEN 0 ELSE 1)
         IN  Min(Min(del, ins), sub)

\* strconv.Atoi for short literals: optional sign, then decimal digits; the
\* value 0 with an error otherwise (the caller drops the error).
IsDigits(s) == s # <<>> /\ \A i \in 1..Len(s) : s[i] >= 48 /\ s[i] <= 57

RECURSIVE DigitsValue(_)
DigitsValue(s) ==
    IF s = <<>> THEN 0
    ELSE 10 * DigitsValue(SubSeq(s, 1, Len(s) - 1)) + (s[Len(s)] - 48)

Atoi(s) ==
    IF s = <<>> THEN 0
    ELSE IF Head(s) = 45 THEN (IF IsDigits(Tail(s)) THEN -DigitsValue(Tail(s)) ELSE 0)
    ELSE IF Head(s) = 43 THEN (IF IsDigits(Tail(s)) THEN DigitsValue(Tail(s)) ELSE 0)
    ELSE IF IsDigits(s) THEN DigitsValue(s)
    ELSE 0

\* -------------------------------------------------------------- record codec
\* A map[string]string: isNil tells the nil map from the empty one.
EmptyKV == [x \in {} |-> <<>>]
NilMap == [isNil |-> TRUE, kv |-> EmptyKV]
GoMap(f) == [isNil |-> FALSE, kv |-> f]

\* a string on the wire: its byte count, then its bytes
EncodeString(str) == <<ByteLen(str)>> \o Utf8Encode(str)

\* the entries of a map in every iteration order (Go randomises it)
RECURSIVE EncodeEntries(_, _)
EncodeEntries(kv, ks) ==
    IF ks = {} THEN {<<>>}
    ELSE UNION {{EncodeString(k) \o EncodeString(kv[k]) \o rest :
                    rest \in EncodeEntries(kv, ks \ {k})} : k \in ks}

\* Serialize, bbolthelper.go:108: the encodings gob can produce for data; a
\* nil map is sent as a map of zero entries.
Serializations(data) ==
    {<<Cardinality(DOMAIN data.kv)>> \o e : e \in EncodeEntries(data.kv, DOMAIN data.kv)}

DecodeFail == [err |-> TRUE, value |-> NilMap]

RECURSIVE DecodeEntries(_, _, _)
DecodeEntries(b, n, acc) ==
    IF n = 0 THEN (IF b = <<>> THEN [err |-> FALSE, value |-> GoMap(acc)] ELSE DecodeFail)
    ELSE IF b = <<>> \/ Len(b) < 1 + b[1] THEN DecodeFail
    ELSE LET k == Utf8Decode(SubSeq(b, 2, 1 + b[1]))
             b2 == SubSeq(b, 2 + b[1], Len(b))
         IN  IF b2 = <<>> \/ Len(b2) < 1 + b2[1] THEN DecodeFail
             ELSE LET v == Utf8Decode(SubSeq(b2, 2, 1 + b2[1]))
                      b3 == SubSeq(b2, 2 + b2[1], Len(b2))
                  IN  DecodeEntries(b3, n - 1,
                          [x \in (DOMAIN acc) \cup {k} |-> IF x = k THEN v ELSE acc[x]])

\* Deserialize leaving the caller's nil map alone when there is no entry
DeserializeNoAlloc(b) ==
    IF b = <<>> THEN DecodeFail
    ELSE IF Head(b) = 0 /\ Tail(b) = <<>> THEN [err |-> FALSE, value |-> NilMap]
    ELSE DecodeEntries(Tail(b), Head(b), EmptyKV)

\* Deserialize, bbolthelper.go:118: decoding into a nil map allocates the map,
\* so a successful decode never yields the nil map.
Deserialize(b) ==
    IF b = <<>> THEN DecodeFail ELSE DecodeEntries(Tail(b), Head(b), EmptyKV)

\* ------------------------------------------------------------ the bbolt file
\* The content of a database file: whether the bucket s.bucketName exists and
\* its key -> value pairs (keys are strings, values are []byte).
NoErr == "nil"
ErrBucketNotFound == "bucket not found"
ErrDeserialize == "failed to deserialize"
ErrKeyRequired == "key required"
ErrDatabaseNotOpen == "database not open"
ErrDatabaseReadOnly == "database is in read-only mode"
ErrPanic == "panic: nil pointer dereference"

NoFile == [exists |-> FALSE, bucket |-> FALSE, kv |-> EmptyKV]
EmptyDB == [exists |-> TRUE, bucket |-> FALSE, kv |-> EmptyKV]

\* GetView matching keys without regard to letter case
GetViewFolded(db, key) ==
    IF ~db.bucket
    THEN [value |-> NilMap, found |-> FALSE, err |-> ErrBucketNotFound]
    ELSE IF \A k \in DOMAIN db.kv : ToLower(k) # ToLower(key)
    THEN [value |-> NilMap, found |-> FALSE, err |-> NoErr]
    ELSE LET d == Deserialize(db.kv[CHOOSE k \in DOMAIN db.kv : ToLower(k) = ToLower(key)])
         IN  IF d.err
             THEN [value |-> NilMap, found |-> FALSE, err |-> ErrDeserialize]
             ELSE [value |-> d.value, found |-> TRUE, err |-> NoErr]

\* GetView reporting an absent key as an error
GetViewMissErr(db, key) ==
    IF ~db.bucket
    THEN [value |-> NilMap, found |-> FALSE, err |-> ErrBucketNotFound]
    ELSE IF key \notin DOMAIN db.kv
    THEN [value |-> NilMap, found |-> FALSE, err |-> "key not found"]
    ELSE LET d == Deserialize(db.kv[key])
         IN  IF d.err
             THEN [value |-> NilMap, found |-> FALSE, err |-> ErrDeserialize]
             ELSE [value |-> d.value, found |-> TRUE, err |-> NoErr]

\* the closure of db.View in Get, bbolthelper.go:133-151
GetView(db, key) ==
    IF ~db.bucket
    THEN [value |-> NilMap, found |-> FALSE, err |-> ErrBucketNotFound]
    ELSE IF key \notin DOMAIN db.kv
    THEN [value |-> NilMap, found |-> FALSE, err |-> NoErr]
    ELSE LET d == Deserialize(db.kv[key])
         IN  IF d.err
             THEN [value |-> NilMap, found |-> FALSE, err |-> ErrDeserialize]
             ELSE [value |-> d.value, found |-> TRUE, err |-> NoErr]

\* putCore, bbolthelper.go:257: Bucket.Put rejects the empty key
PutCoreErr(db, key) ==
    IF ~db.bucket THEN ErrBucketNotFound
    ELSE IF key = <<>> THEN ErrKeyRequired
    ELSE NoErr

\* PutCore keeping the value a key already has
PutCoreKeepFirst(db, key, serializedValue) ==
    IF PutCoreErr(db, key) # NoErr \/ key \in DOMAIN db.kv THEN db
    ELSE [db EXCEPT !.kv = [x \in (DOMAIN db.kv) \cup {key} |->
                                IF x = key THEN serializedValue ELSE db.kv[x]]]

PutCore(db, key, serializedValue) ==
    IF PutCoreErr(db, key) # NoErr THEN db
    ELSE [db EXCEPT !.kv = [x \in (DOMAIN db.kv) \cup {key} |->
                                IF x = key THEN serializedValue ELSE db.kv[x]]]

\* the keys in cursor order (c.First, c.Next): ascending by bytes
RECURSIVE CursorKeys(_)
CursorKeys(ks) ==
    IF ks = {} THEN <<>>
    ELSE LET first == CHOOSE k \in ks : \A o \in ks \ {k} : StrLess(k, o)
         IN  <<first>> \o CursorKeys(ks \ {first})

\* ------------------------------------------------------------- FindSimilar
ScanLimit == 10
TopN == 3
\* "frq"
FrqField == <<102, 114, 113>>

\* the length check of bbolthelper.go:194
LengthPruned(dbWord, word, maxDistance) ==
    abs(ByteLen(dbWord) - ByteLen(word)) > maxDistance

\* the qualifying condition letting the exact match through
QualifiesExact(dist, maxDistance) == dist <= maxDistance

\* the qualifying condition of bbolthelper.go:200
Qualifies(dist, maxDistance) == dist > 0 /\ dist <= maxDistance

\* the candidate of a decoded entry, ranked last when it has no usable frq
SuggestionBadFrqLast(dbWord, valueMap) ==
    [word |-> dbWord,
     freq |-> IF FrqField \in DOMAIN valueMap.kv /\ IsDigits(valueMap.kv[FrqField])
              THEN Atoi(valueMap.kv[FrqField]) ELSE 1000000,
     len |-> ByteLen(dbWord)]

\* lines 208-215: the candidate of a decoded entry
Suggestion(dbWord, valueMap) ==
    [word |-> dbWord,
     freq |-> IF FrqField \in DOMAIN valueMap.kv THEN Atoi(valueMap.kv[FrqField]) ELSE 0,
     len |-> ByteLen(dbWord)]

\* the cursor loop ending the scan at the first value that fails to decode
RECURSIVE ScanLoopStopsAtCorrupt(_, _, _, _, _)
ScanLoopStopsAtCorrupt(ks, kv, word, maxDistance, suggestions) ==
    IF ks = <<>> THEN suggestions
    ELSE IF Len(suggestions) > ScanLimit THEN suggestions
    ELSE LET dbWord == Head(ks)
         IN  IF LengthPruned(dbWord, word, maxDistance)
             THEN ScanLoopStopsAtCorrupt(Tail(ks), kv, word, maxDistance, suggestions)
             ELSE IF Qualifies(ComputeDistance(word, dbWord), maxDistance)
             THEN LET d == Deserialize(kv[dbWord])
                  IN  IF d.err
                      THEN suggestions
                      ELSE ScanLoopStopsAtCorrupt(Tail(ks), kv, word, maxDistance,
                                    Append(suggestions, Suggestion(dbWord, d.value)))
             ELSE ScanLoopStopsAtCorrupt(Tail(ks), kv, word, maxDistance, suggestions)

\* the cursor loop, bbolthelper.go:184-217, over the keys still ahead
RECURSIVE ScanLoop(_, _, _, _, _)
ScanLoop(ks, kv, word, maxDistance, suggestions) ==
    IF ks = <<>> THEN suggestions
    ELSE IF Len(suggestions) > ScanLimit THEN suggestions
    ELSE LET dbWord == Head(ks)
         IN  IF LengthPruned(dbWord, word, maxDistance)
             THEN ScanLoop(Tail(ks), kv, word, maxDistance, suggestions)
             ELSE IF Qualifies(ComputeDistance(word, dbWord), maxDistance)
             THEN LET d == Deserialize(kv[dbWord])
                  IN  IF d.err
                      THEN ScanLoop(Tail(ks), kv, word, maxDistance, suggestions)
                      ELSE ScanLoop(Tail(ks), kv, word, maxDistance,
                                    Append(suggestions, Suggestion(dbWord, d.value)))
             ELSE ScanLoop(Tail(ks), kv, word, maxDistance, suggestions)

\* the less function preferring the shorter word among equal frequencies
SuggestionLessShortFirst(a, b) ==
    IF a.freq # b.freq THEN a.freq < b.freq ELSE a.len < b.len

\* the less function of sort.Slice, bbolthelper.go:226-231
SuggestionLess(a, b) ==
    IF a.freq # b.freq THEN a.freq < b.freq ELSE a.len > b.len

\* sort.Slice on at most ScanLimit + 1 elements runs an insertion sort:
\* each element moves left while it is less than its left neighbour.
RECURSIVE InsertLeft(_, _)
InsertLeft(sorted, x) ==
    IF sorted = <<>> THEN <<x>>
    ELSE IF SuggestionLess(x, sorted[Len(sorted)])
    THEN Append(InsertLeft(SubSeq(sorted, 1, Len(sorted) - 1), x), sorted[Len(sorted)])
    ELSE Append(sorted, x)

RECURSIVE SortSlice(_)
SortSlice(sugs) ==
    IF sugs = <<>> THEN <<>>
    ELSE InsertLeft(SortSlice(SubSeq(sugs, 1, Len(sugs) - 1)), sugs[Len(sugs)])

\* the result without the limit of lines 234-236
LimitWordsAll(sugs) == [i \in 1..Len(sugs) |-> sugs[i].word]

\* lines 233-242: the first three, keys only
LimitWords(sugs) == [i \in 1..Min(Len(sugs), TopN) |-> sugs[i].word]

\* the closure of db.View in FindSimilar: the candidates collected
Collected(db, word, maxDistance) ==
    ScanLoop(CursorKeys(DOMAIN db.kv), db.kv, word, maxDistance, <<>>)

\* FindSimilar on an open database, bbolthelper.go:166-245
FindSimilarView(db, word, maxDistance) ==
    IF ~db.bucket THEN [words |-> <<>>, err |-> ErrBucketNotFound]
    ELSE [words |-> LimitWords(SortSlice(Collected(db, word, maxDistance))),
          err |-> NoErr]

\* ------------------------------------------------------------------- state
\* DefaultDBPath and DefaultTempDBPath, bbolthelper.go:20-21
DefaultDBPath == "ecdict.bbolt"
DefaultTempDBPath == "ecdict.bbolt.tmp"

VARIABLES
    files,      \* the file system: path -> content of the database file
    s,          \* the DBStore: s.db is "unopened", "open", "closed" or "nil"
    tx,         \* the write transaction of a running ImportFromCSV
    cpt,        \* the position of a running Compact
    ret,        \* what the last finished call was given and returned
    written     \* history: key -> the record and the operation that last wrote it

vars == <<files, s, tx, cpt, ret, written>>

\* "def", "word"
DefField == <<100, 101, 102>>
WordField == <<119, 111, 114, 100>>

\* the records callers put: nil, empty, one field, two fields
Records ==
    {NilMap, GoMap(EmptyKV),
     GoMap([f \in {FrqField} |-> <<49>>]),
     GoMap([f \in {FrqField, DefField} |-> IF f = FrqField THEN <<50>> ELSE <<120>>])}

NoRet == [op |-> "none", key |-> <<>>, arg |-> NilMap, value |-> NilMap,
          found |-> FALSE, err |-> NoErr, words |-> <<>>, n |-> 0, bytes |-> <<>>,
          out |-> "none"]

NoTx == [active |-> FALSE, work |-> EmptyKV, header |-> <<>>, rows |-> <<>>,
         n |-> 0, wrote |-> EmptyKV, before |-> EmptyKV, outcome |-> "none",
         source |-> <<>>, eof |-> TRUE, warned |-> 0]

CptIdle == [pc |-> "idle", roOpen |-> FALSE, tempOpen |-> FALSE, cleanup |-> FALSE,
            before |-> NoFile, trace |-> <<>>, done |-> "never"]

Idle == cpt.pc = "idle" /\ ~tx.active

\* what db.View reports before it runs its closure (bbolt Begin)
ViewErr ==
    IF s.db = "nil" THEN ErrPanic
    ELSE IF s.db = "closed" THEN ErrDatabaseNotOpen
    ELSE NoErr

\* what db.Update reports before it runs its closure (bbolt beginRWTx)
UpdateErr ==
    IF s.db = "nil" THEN ErrPanic
    ELSE IF s.readOnly THEN ErrDatabaseReadOnly
    ELSE IF s.db = "closed" THEN ErrDatabaseNotOpen
    ELSE NoErr

ErrCommit == "commit failed"
ErrOpen == "failed to open bbolt database"

\* history only: rec is the record last written under a key, by the operation
\* that wrote it, over tells whether it replaced an earlier value
Record(by, rec, over) == [by |-> by, rec |-> rec, over |-> over]
Remember(w, key, by, rec) ==
    [x \in (DOMAIN w) \cup {key} |->
        IF x = key THEN Record(by, rec, key \in DOMAIN w) ELSE w[x]]

\* the state before NewDBStore, the database file holding db
InitWith(db) ==
    /\ files = [p \in {DefaultDBPath, DefaultTempDBPath} |->
                   IF p = DefaultDBPath THEN db ELSE NoFile]
    /\ s = [db |-> "unopened", readOnly |-> FALSE]
    /\ tx = NoTx
    /\ cpt = CptIdle
    /\ ret = NoRet
    /\ written = EmptyKV

Init == \E db \in {NoFile, EmptyDB} : InitWith(db)

\* NewDBStore creating the bucket in read-only mode as well
NewDBStoreEnsuresBucket(readOnly) ==
    /\ Idle
    /\ s.db # "open"
    /\ IF readOnly /\ ~files[DefaultDBPath].exists
       THEN /\ ret' = [NoRet EXCEPT !.op = "NewDBStore", !.err = ErrOpen]
            /\ UNCHANGED <<files, s>>
       ELSE /\ files' = [files EXCEPT ![DefaultDBPath] =
                            [exists |-> TRUE, bucket |-> TRUE, kv |-> @.kv]]
            /\ s' = [db |-> "open", readOnly |-> readOnly]
            /\ ret' = [NoRet EXCEPT !.op = "NewDBStore"]
    /\ UNCHANGED <<tx, cpt, written>>

\* NewDBStore, bbolthelper.go:45-95
NewDBStore(readOnly) ==
    /\ Idle
    /\ s.db # "open"
    /\ IF readOnly /\ ~files[DefaultDBPath].exists
       THEN /\ ret' = [NoRet EXCEPT !.op = "NewDBStore", !.err = ErrOpen]
            /\ UNCHANGED <<files, s>>
       ELSE /\ files' = [files EXCEPT ![DefaultDBPath] =
                            IF readOnly THEN @
                            ELSE [exists |-> TRUE, bucket |-> TRUE, kv |-> @.kv]]
            /\ s' = [db |-> "open", readOnly |-> readOnly]
            /\ ret' = [NoRet EXCEPT !.op = "NewDBStore"]
    /\ UNCHANGED <<tx, cpt, written>>

\* Close reporting a handle that is already closed
CloseOnce ==
    /\ Idle
    /\ s.db # "unopened"
    /\ s' = IF s.db = "nil" THEN s ELSE [s EXCEPT !.db = "closed"]
    /\ ret' = [NoRet EXCEPT !.op = "Close",
                            !.err = IF s.db = "open" THEN NoErr ELSE ErrDatabaseNotOpen]
    /\ UNCHANGED <<files, tx, cpt, written>>

\* Close, bbolthelper.go:98-105; bbolt's DB.Close on a closed DB returns nil
Close ==
    /\ Idle
    /\ s.db # "unopened"
    /\ s' = IF s.db = "nil" THEN s ELSE [s EXCEPT !.db = "closed"]
    /\ ret' = [NoRet EXCEPT !.op = "Close"]
    /\ UNCHANGED <<files, tx, cpt, written>>

\* Get, bbolthelper.go:129-157
GetResult(key) ==
    IF ViewErr # NoErr
    THEN [NoRet EXCEPT !.op = "Get", !.key = key, !.err = ViewErr]
    ELSE LET g == GetView(files[DefaultDBPath], key)
         IN  [NoRet EXCEPT !.op = "Get", !.key = key, !.value = g.value,
                           !.found = g.found, !.err = g.err]

\* Get creating the bucket it does not find
GetEnsuresBucket(key) ==
    /\ cpt.pc = "idle"
    /\ s.db # "unopened"
    /\ ret' = GetResult(key)
    /\ files' = IF ViewErr = NoErr /\ ~files[DefaultDBPath].bucket
                THEN [files EXCEPT ![DefaultDBPath].bucket = TRUE]
                ELSE files
    /\ UNCHANGED <<s, tx, cpt, written>>

Get(key) ==
    /\ cpt.pc = "idle"
    /\ s.db # "unopened"
    /\ ret' = GetResult(key)
    /\ UNCHANGED <<files, s, tx, cpt, written>>

\* Put, bbolthelper.go:270-279; db.Update commits, or rolls back when the
\* closure or the commit fails
Put(key, valueMap, commits) ==
    /\ Idle
    /\ s.db # "unopened"
    /\ \E serializedValue \in Serializations(valueMap) :
          LET e == IF UpdateErr # NoErr THEN UpdateErr
                   ELSE IF PutCoreErr(files[DefaultDBPath], key) # NoErr
                   THEN PutCoreErr(files[DefaultDBPath], key)
                   ELSE IF ~commits THEN ErrCommit
                   ELSE NoErr
          IN  /\ files' = IF e = NoErr
                          THEN [files EXCEPT ![DefaultDBPath] =
                                    PutCore(@, key, serializedValue)]
                          ELSE files
              /\ written' = IF e = NoErr THEN Remember(written, key, "Put", valueMap)
                            ELSE written
              /\ ret' = [NoRet EXCEPT !.op = "Put", !.key = key, !.arg = valueMap,
                                      !.err = e]
    /\ UNCHANGED <<s, tx, cpt>>

\* FindSimilar, bbolthelper.go:166-245
FindSimilarResult(word, maxDistance) ==
    IF ViewErr # NoErr
    THEN [NoRet EXCEPT !.op = "FindSimilar", !.key = word, !.n = maxDistance,
                       !.err = ViewErr]
    ELSE LET r == FindSimilarView(files[DefaultDBPath], word, maxDistance)
         IN  [NoRet EXCEPT !.op = "FindSimilar", !.key = word, !.n = maxDistance,
                           !.words = r.words, !.err = r.err]

FindSimilar(word, maxDistance) ==
    /\ cpt.pc = "idle"
    /\ s.db # "unopened"
    /\ ret' = FindSimilarResult(word, maxDistance)
    /\ UNCHANGED <<files, s, tx, cpt, written>>

\* Serialize, bbolthelper.go:108-115, called on its own
Serialize(data) ==
    /\ Idle
    /\ \E b \in Serializations(data) :
          ret' = [NoRet EXCEPT !.op = "Serialize", !.arg = data, !.bytes = b]
    /\ UNCHANGED <<files, s, tx, cpt, written>>

\* Deserialize, bbolthelper.go:118-125, called on the bytes Serialize returned
DeserializeSerialized ==
    /\ Idle
    /\ ret.op = "Serialize"
    /\ LET d == Deserialize(ret.bytes)
       IN  ret' = [ret EXCEPT !.op = "Deserialize", !.value = d.value,
                              !.err = IF d.err THEN ErrDeserialize ELSE NoErr]
    /\ UNCHANGED <<files, s, tx, cpt, written>>

\* ------------------------------------------------------------- the ne tool
\* The Action of cmd/ne, main.go:71-200, as one run of the tool: the term is
\* lowercased, the store is opened read-only, Get is called once and the
\* result is printed; the deferred Close runs at every return after the open.
\* out is what the run printed: "error", "not found" or "entry".
NeAction(term) ==
    /\ Idle
    /\ s.db # "open"
    /\ LET searchKey == ToLower(term)
           g == GetView(files[DefaultDBPath], searchKey)
       IN  IF ~files[DefaultDBPath].exists
           THEN /\ ret' = [NoRet EXCEPT !.op = "ne", !.key = searchKey,
                                        !.err = ErrOpen, !.out = "error"]
                /\ s' = s
           ELSE /\ ret' = [NoRet EXCEPT !.op = "ne", !.key = searchKey,
                                        !.value = g.value, !.found = g.found,
                                        !.err = g.err,
                                        !.out = IF g.err # NoErr THEN "error"
                                                ELSE IF ~g.found THEN "not found"
                                                ELSE "entry"]
                /\ s' = [db |-> "closed", readOnly |-> TRUE]
    /\ UNCHANGED <<files, tx, cpt, written>>

\* ------------------------------------------------------------ ImportFromCSV
MaxRows == 2

\* A CSV source: whether the file can be opened and its lines, the header
\* first.  A line is the fields csv.Reader parses from it, or bad when the
\* line does not parse (a bare quote).
Line(fields) == [bad |-> FALSE, fields |-> fields]
BadLine == [bad |-> TRUE, fields |-> <<>>]
HeaderLine == Line(<<WordField, FrqField>>)
DataLines ==
    {Line(<<<<65>>, <<49>>>>), Line(<<<<97>>, <<50>>>>), Line(<<<<233>>, <<49>>>>),
     Line(<<<<>>, <<49>>>>), Line(<<<<97>>>>), Line(<<<<65>>, <<49>>, <<120>>>>),
     BadLine}
\* a source: whether the file exists, its lines, and whether the reads after
\* the last line return io.EOF (eof) or keep returning another error
CsvFiles ==
    {[exists |-> FALSE, lines |-> <<>>, eof |-> TRUE],
     [exists |-> TRUE, lines |-> <<>>, eof |-> TRUE]}
    \cup {[exists |-> TRUE, lines |-> <<HeaderLine>> \o rows, eof |-> TRUE] :
             rows \in UNION {[1..i -> DataLines] : i \in 0..MaxRows}}

\* reader.Read on one line: FieldsPerRecord is 0, so the header fixes the
\* field count and a line with another count is returned with ErrFieldCount.
ReadErr(header, line) == line.bad \/ Len(line.fields) # Len(header)

\* lines 331-339: header[i] -> record[i] for 1 <= i < len(record), i < len(header)
\* (0-based); a repeated header name keeps the last column.
RowValueMap(header, record) ==
    LET cols == 2..Min(Len(record), Len(header))
        last(f) == CHOOSE j \in cols : header[j] = f /\
                       \A j2 \in cols : header[j2] = f => j2 <= j
    IN  GoMap([f \in {header[j] : j \in cols} |-> record[last(f)]])

ErrCsvOpen == "failed to open CSV file"
ErrCsvEmpty == "CSV file is empty or has no header"
ErrCsvHeader == "header is invalid (too few columns)"
ErrCsvRead == "failed to read header from CSV"
ErrTransaction == "failed during bbolt transaction for CSV import"

\* ImportFromCSV opening its transaction before it looks at the header
ImportFromCSVNoHeaderCheck(csv) ==
    /\ Idle
    /\ s.db # "unopened"
    /\ LET e == IF ~csv.exists THEN ErrCsvOpen
                ELSE IF UpdateErr # NoErr THEN UpdateErr
                ELSE IF ~files[DefaultDBPath].bucket THEN ErrBucketNotFound
                ELSE NoErr
       IN  IF e # NoErr
           THEN /\ ret' = [NoRet EXCEPT !.op = "ImportFromCSV", !.err = e]
                /\ tx' = tx
           ELSE /\ tx' = [active |-> TRUE, work |-> files[DefaultDBPath].kv,
                          header |-> IF csv.lines = <<>> THEN <<>>
                                     ELSE Head(csv.lines).fields,
                          rows |-> IF csv.lines = <<>> THEN <<>> ELSE Tail(csv.lines),
                          n |-> 0, wrote |-> EmptyKV,
                          before |-> files[DefaultDBPath].kv, outcome |-> "running",
                          source |-> csv.lines, eof |-> csv.eof, warned |-> 0]
                /\ ret' = ret
    /\ UNCHANGED <<files, s, cpt, written>>

\* ImportFromCSV up to the first iteration of the read loop, lines 283-314
ImportFromCSV(csv) ==
    /\ Idle
    /\ s.db # "unopened"
    /\ LET e == IF ~csv.exists THEN ErrCsvOpen
                ELSE IF csv.lines = <<>> THEN ErrCsvEmpty
                ELSE IF Head(csv.lines).bad THEN ErrCsvRead
                ELSE IF Len(Head(csv.lines).fields) < 1 THEN ErrCsvHeader
                ELSE IF UpdateErr # NoErr THEN UpdateErr
                ELSE IF ~files[DefaultDBPath].bucket THEN ErrBucketNotFound
                ELSE NoErr
       IN  IF e # NoErr
           THEN /\ ret' = [NoRet EXCEPT !.op = "ImportFromCSV", !.err = e]
                /\ tx' = tx
           ELSE /\ tx' = [active |-> TRUE, work |-> files[DefaultDBPath].kv,
                          header |-> Head(csv.lines).fields, rows |-> Tail(csv.lines),
                          n |-> 0, wrote |-> EmptyKV,
                          before |-> files[DefaultDBPath].kv, outcome |-> "running",
                          source |-> csv.lines, eof |-> csv.eof, warned |-> 0]
                /\ ret' = ret
    /\ UNCHANGED <<files, s, cpt, written>>

\* the read loop writing each row through to the file, outside the transaction
ImportRowWriteThrough ==
    /\ tx.active
    /\ tx.rows # <<>>
    /\ LET line == Head(tx.rows)
           record == line.fields
           key == ToLower(record[1])
           valueMap == RowValueMap(tx.header, record)
           work == [exists |-> TRUE, bucket |-> TRUE, kv |-> tx.work]
       IN  IF ReadErr(tx.header, line) \/ Len(record) < 1
           THEN tx' = [tx EXCEPT !.rows = Tail(@)] /\ files' = files
           ELSE \E serializedRecordValue \in Serializations(valueMap) :
                   IF PutCoreErr(work, key) # NoErr
                   THEN tx' = [tx EXCEPT !.rows = Tail(@)] /\ files' = files
                   ELSE /\ tx' = [tx EXCEPT
                                     !.rows = Tail(@),
                                     !.work = PutCore(work, key, serializedRecordValue).kv,
                                     !.n = @ + 1,
                                     !.wrote = [x \in (DOMAIN @) \cup {key} |->
                                                   IF x = key THEN valueMap ELSE @[x]]]
                        /\ files' = [files EXCEPT ![DefaultDBPath].kv =
                                        PutCore(work, key, serializedRecordValue).kv]
    /\ UNCHANGED <<s, cpt, ret, written>>

\* the read loop counting the rows it skips as well
ImportRowCountsSkipped ==
    /\ tx.active
    /\ tx.rows # <<>>
    /\ LET line == Head(tx.rows)
           record == line.fields
           key == ToLower(record[1])
           valueMap == RowValueMap(tx.header, record)
           work == [exists |-> TRUE, bucket |-> TRUE, kv |-> tx.work]
       IN  IF ReadErr(tx.header, line) \/ Len(record) < 1
           THEN tx' = [tx EXCEPT !.rows = Tail(@), !.n = @ + 1]
           ELSE \E serializedRecordValue \in Serializations(valueMap) :
                   IF PutCoreErr(work, key) # NoErr
                   THEN tx' = [tx EXCEPT !.rows = Tail(@), !.n = @ + 1]
                   ELSE tx' = [tx EXCEPT
                                  !.rows = Tail(@),
                                  !.work = PutCore(work, key, serializedRecordValue).kv,
                                  !.n = @ + 1,
                                  !.wrote = [x \in (DOMAIN @) \cup {key} |->
                                                IF x = key THEN valueMap ELSE @[x]]]
    /\ UNCHANGED <<files, s, cpt, ret, written>>

\* the read loop using column 0 as it is, without strings.ToLower
ImportRowExactKey ==
    /\ tx.active
    /\ tx.rows # <<>>
    /\ LET line == Head(tx.rows)
           record == line.fields
           key == record[1]
           valueMap == RowValueMap(tx.header, record)
           work == [exists |-> TRUE, bucket |-> TRUE, kv |-> tx.work]
       IN  IF ReadErr(tx.header, line) \/ Len(record) < 1
           THEN tx' = [tx EXCEPT !.rows = Tail(@)]
           ELSE \E serializedRecordValue \in Serializations(valueMap) :
                   IF PutCoreErr(work, key) # NoErr
                   THEN tx' = [tx EXCEPT !.rows = Tail(@)]
                   ELSE tx' = [tx EXCEPT
                                  !.rows = Tail(@),
                                  !.work = PutCore(work, key, serializedRecordValue).kv,
                                  !.n = @ + 1,
                                  !.wrote = [x \in (DOMAIN @) \cup {key} |->
                                                IF x = key THEN valueMap ELSE @[x]]]
    /\ UNCHANGED <<files, s, cpt, ret, written>>

\* the read loop returning putCore's error from the closure, which rolls the
\* transaction back and ends the load
ImportRowAbortOnPutError ==
    /\ tx.active
    /\ tx.rows # <<>>
    /\ LET line == Head(tx.rows)
           record == line.fields
           key == ToLower(record[1])
           valueMap == RowValueMap(tx.header, record)
           work == [exists |-> TRUE, bucket |-> TRUE, kv |-> tx.work]
       IN  IF ReadErr(tx.header, line) \/ Len(record) < 1
           THEN tx' = [tx EXCEPT !.rows = Tail(@)] /\ ret' = ret
           ELSE \E serializedRecordValue \in Serializations(valueMap) :
                   IF PutCoreErr(work, key) # NoErr
                   THEN /\ tx' = [NoTx EXCEPT !.wrote = tx.wrote, !.before = tx.before,
                                              !.source = tx.source,
                                              !.outcome = "rolled back"]
                        /\ ret' = [NoRet EXCEPT !.op = "ImportFromCSV", !.n = tx.n,
                                                !.err = ErrTransaction]
                   ELSE /\ tx' = [tx EXCEPT
                                     !.rows = Tail(@),
                                     !.work = PutCore(work, key, serializedRecordValue).kv,
                                     !.n = @ + 1,
                                     !.wrote = [x \in (DOMAIN @) \cup {key} |->
                                                   IF x = key THEN valueMap ELSE @[x]]]
                        /\ ret' = ret
    /\ UNCHANGED <<files, s, cpt, written>>

\* the read loop returning reader.Read's error from the closure, which rolls
\* the transaction back and ends the load
ImportRowAbortOnReadError ==
    /\ tx.active
    /\ tx.rows # <<>>
    /\ LET line == Head(tx.rows)
           record == line.fields
           key == ToLower(record[1])
           valueMap == RowValueMap(tx.header, record)
           work == [exists |-> TRUE, bucket |-> TRUE, kv |-> tx.work]
       IN  IF ReadErr(tx.header, line) \/ Len(record) < 1
           THEN /\ tx' = [NoTx EXCEPT !.wrote = tx.wrote, !.before = tx.before,
                                      !.source = tx.source,
                                      !.outcome = "rolled back"]
                /\ ret' = [NoRet EXCEPT !.op = "ImportFromCSV", !.n = tx.n,
                                        !.err = ErrTransaction]
           ELSE \E serializedRecordValue \in Serializations(valueMap) :
                   /\ ret' = ret
                   /\ IF PutCoreErr(work, key) # NoErr
                      THEN tx' = [tx EXCEPT !.rows = Tail(@)]
                      ELSE tx' = [tx EXCEPT
                                     !.rows = Tail(@),
                                     !.work = PutCore(work, key, serializedRecordValue).kv,
                                     !.n = @ + 1,
                                     !.wrote = [x \in (DOMAIN @) \cup {key} |->
                                                   IF x = key THEN valueMap ELSE @[x]]]
    /\ UNCHANGED <<files, s, cpt, written>>

\* one iteration of the read loop, lines 315-360
ImportRow ==
    /\ tx.active
    /\ tx.rows # <<>>
    /\ LET line == Head(tx.rows)
           record == line.fields
           key == ToLower(record[1])
           valueMap == RowValueMap(tx.header, record)
           work == [exists |-> TRUE, bucket |-> TRUE, kv |-> tx.work]
       IN  IF ReadErr(tx.header, line) \/ Len(record) < 1
           THEN tx' = [tx EXCEPT !.rows = Tail(@)]
           ELSE \E serializedRecordValue \in Serializations(valueMap) :
                   IF PutCoreErr(work, key) # NoErr
                   THEN tx' = [tx EXCEPT !.rows = Tail(@)]
                   ELSE tx' = [tx EXCEPT
                                  !.rows = Tail(@),
                                  !.work = PutCore(work, key, serializedRecordValue).kv,
                                  !.n = @ + 1,
                                  !.wrote = [x \in (DOMAIN @) \cup {key} |->
                                                IF x = key THEN valueMap ELSE @[x]]]
    /\ UNCHANGED <<files, s, cpt, ret, written>>

\* reader.Read past the last line failing with an error other than io.EOF:
\* the loop logs a warning and reads again, lines 316-323; warned counts the
\* warnings modulo MaxWarned + 1
MaxWarned == 2
ImportReadError ==
    /\ tx.active
    /\ tx.rows = <<>>
    /\ ~tx.eof
    /\ tx' = [tx EXCEPT !.warned = (@ + 1) % (MaxWarned + 1)]
    /\ UNCHANGED <<files, s, cpt, ret, written>>

\* io.EOF ends the loop, the closure returns nil and db.Update commits, or
\* rolls back when the commit fails; lines 317-318, 361-375
ImportCommit ==
    /\ tx.active
    /\ tx.rows = <<>>
    /\ tx.eof
    /\ \E commits \in BOOLEAN :
          /\ tx' = [NoTx EXCEPT !.wrote = tx.wrote, !.before = tx.before,
                                !.source = tx.source,
                                !.outcome = IF commits THEN "committed"
                                            ELSE "rolled back"]
          /\ IF commits
             THEN /\ files' = [files EXCEPT ![DefaultDBPath].kv = tx.work]
                  /\ written' =
                        [x \in (DOMAIN written) \cup (DOMAIN tx.wrote) |->
                            IF x \in DOMAIN tx.wrote
                            THEN Record("Import", tx.wrote[x], x \in DOMAIN written)
                            ELSE written[x]]
                  /\ ret' = [NoRet EXCEPT !.op = "ImportFromCSV", !.n = tx.n]
             ELSE /\ UNCHANGED <<files, written>>
                  /\ ret' = [NoRet EXCEPT !.op = "ImportFromCSV", !.n = tx.n,
                                          !.err = ErrTransaction]
    /\ UNCHANGED <<s, cpt>>

\* ------------------------------------------------------------------ Compact
ErrCompactClosed == "cannot compact a closed or uninitialized DBStore"
ErrCompactClose == "failed to close current database instance"
ErrCompactOpenOriginal == "failed to open original DB as read-only"
ErrCompactOpenTemp == "failed to open temp DB"
ErrCompactCopy == "failed to copy data"
ErrCompactCloseTemp == "failed to close temp DB"
ErrCompactRemove == "failed to remove original DB"
ErrCompactRename == "failed to rename temp DB; manual recovery might be needed"

\* the deferred functions of Compact, lines 416 and 423-429, run at every
\* return after they were registered: the temp file is removed if it exists;
\* the result of os.Remove is dropped, removed tells whether it succeeded
Deferred(fs, removed) ==
    IF cpt.cleanup /\ fs[DefaultTempDBPath].exists /\ removed
    THEN [fs EXCEPT ![DefaultTempDBPath] = NoFile]
    ELSE fs

CompactReturn(fs, err, step) ==
    /\ \E removed \in BOOLEAN : files' = Deferred(fs, removed)
    /\ cpt' = [CptIdle EXCEPT !.before = cpt.before,
                              !.trace = Append(cpt.trace, step),
                              !.done = IF err = NoErr THEN "ok" ELSE "failed"]
    /\ ret' = [NoRet EXCEPT !.op = "Compact", !.err = err]

CompactStep(fs, next, step) ==
    /\ files' = fs
    /\ cpt' = [cpt EXCEPT !.pc = next, !.trace = Append(@, step)]
    /\ ret' = ret

\* the guard and step 1, lines 381-407: close the caller's handle
Compact(tempDBPath) ==
    /\ Idle
    /\ s.db # "unopened"
    /\ tempDBPath \in {"", DefaultTempDBPath}
    /\ IF s.db = "nil"
       THEN /\ ret' = [NoRet EXCEPT !.op = "Compact", !.err = ErrCompactClosed]
            /\ UNCHANGED <<files, s, cpt>>
       ELSE /\ s' = [s EXCEPT !.db = "nil"]
            /\ \E closed \in BOOLEAN :
                  IF closed
                  THEN /\ cpt' = [CptIdle EXCEPT !.pc = "open original",
                                                 !.before = files[DefaultDBPath],
                                                 !.trace = <<"close">>]
                       /\ UNCHANGED <<files, ret>>
                  ELSE /\ cpt' = [CptIdle EXCEPT !.before = files[DefaultDBPath],
                                                 !.trace = <<"close failed">>,
                                                 !.done = "failed"]
                       /\ ret' = [NoRet EXCEPT !.op = "Compact", !.err = ErrCompactClose]
                       /\ UNCHANGED files
    /\ UNCHANGED <<tx, written>>

\* step 2, lines 409-416
CompactOpenOriginal ==
    /\ cpt.pc = "open original"
    /\ \E opened \in BOOLEAN :
          IF opened /\ files[DefaultDBPath].exists
          THEN /\ files' = files
               /\ cpt' = [cpt EXCEPT !.pc = "open temp", !.roOpen = TRUE,
                                     !.trace = Append(@, "open original")]
               /\ ret' = ret
          ELSE CompactReturn(files, ErrCompactOpenOriginal, "open original failed")
    /\ UNCHANGED <<s, tx, written>>

\* step 3, lines 418-429: bolt.Open creates the temp file when it is missing;
\* a failed open may leave a file it created
CompactOpenTemp ==
    /\ cpt.pc = "open temp"
    /\ \E opened \in BOOLEAN, created \in BOOLEAN :
          LET fs == IF files[DefaultTempDBPath].exists \/ ~(opened \/ created)
                    THEN files
                    ELSE [files EXCEPT ![DefaultTempDBPath] = EmptyDB]
          IN  IF opened
              THEN /\ files' = fs
                   /\ cpt' = [cpt EXCEPT !.pc = "copy", !.tempOpen = TRUE,
                                         !.cleanup = TRUE,
                                         !.trace = Append(@, "open temp")]
                   /\ ret' = ret
              ELSE CompactReturn(fs, ErrCompactOpenTemp, "open temp failed")
    /\ UNCHANGED <<s, tx, written>>

\* step 4 going on to step 5 after a failed copy
CompactCopyIgnoresError ==
    /\ cpt.pc = "copy"
    /\ \E copied \in BOOLEAN :
          IF copied
          THEN CompactStep([files EXCEPT ![DefaultTempDBPath] = files[DefaultDBPath]],
                           "close copies", "copy")
          ELSE CompactStep([files EXCEPT ![DefaultTempDBPath] = EmptyDB],
                           "close copies", "copy failed")
    /\ UNCHANGED <<s, tx, written>>

\* step 4 copying no page: the temp file stays the empty database
CompactCopyNothing ==
    /\ cpt.pc = "copy"
    /\ \E copied \in BOOLEAN :
          IF copied
          THEN CompactStep([files EXCEPT ![DefaultTempDBPath] = EmptyDB],
                           "close copies", "copy")
          ELSE CompactReturn([files EXCEPT ![DefaultTempDBPath] = EmptyDB],
                             ErrCompactCopy, "copy failed")
    /\ UNCHANGED <<s, tx, written>>

\* step 4, lines 431-441: tx.CopyFile writes the pages of the original into
\* the temp path; a failed copy leaves a truncated file
CompactCopy ==
    /\ cpt.pc = "copy"
    /\ \E copied \in BOOLEAN :
          IF copied
          THEN CompactStep([files EXCEPT ![DefaultTempDBPath] = files[DefaultDBPath]],
                           "close copies", "copy")
          ELSE CompactReturn([files EXCEPT ![DefaultTempDBPath] = EmptyDB],
                             ErrCompactCopy, "copy failed")
    /\ UNCHANGED <<s, tx, written>>

\* step 5, lines 443-449: a failure to close the temp database is returned;
\* a failure to close the read-only original is only logged (roClosed), and
\* bbolt's Close marks the database closed before anything in it can fail
CompactCloseCopies ==
    /\ cpt.pc = "close copies"
    /\ \E closed \in BOOLEAN, roClosed \in BOOLEAN :
          IF closed
          THEN /\ files' = files
               /\ cpt' = [cpt EXCEPT !.pc = "remove", !.tempOpen = FALSE,
                                     !.roOpen = FALSE,
                                     !.trace = Append(@, "close copies")]
               /\ ret' = ret
          ELSE CompactReturn(files, ErrCompactCloseTemp, "close temp failed")
    /\ UNCHANGED <<s, tx, written>>

\* step 6, lines 451-455
CompactRemove ==
    /\ cpt.pc = "remove"
    /\ \E removed \in BOOLEAN :
          IF removed
          THEN CompactStep([files EXCEPT ![DefaultDBPath] = NoFile], "rename", "remove")
          ELSE CompactReturn(files, ErrCompactRemove, "remove failed")
    /\ UNCHANGED <<s, tx, written>>

\* the text of line 460 alone carries "manual recovery ... might be needed"
ManualRecoveryTagged(err) == err = ErrCompactRename

\* step 7 failing with the untagged text of the other failures
CompactRenameUntagged ==
    /\ cpt.pc = "rename"
    /\ \E renamed \in BOOLEAN :
          IF renamed
          THEN CompactReturn([files EXCEPT ![DefaultDBPath] = files[DefaultTempDBPath],
                                           ![DefaultTempDBPath] = NoFile],
                             NoErr, "rename")
          ELSE CompactReturn(files, ErrCompactRemove, "rename failed")
    /\ UNCHANGED <<s, tx, written>>

\* step 7, lines 457-466
CompactRename ==
    /\ cpt.pc = "rename"
    /\ \E renamed \in BOOLEAN :
          IF renamed
          THEN CompactReturn([files EXCEPT ![DefaultDBPath] = files[DefaultTempDBPath],
                                           ![DefaultTempDBPath] = NoFile],
                             NoErr, "rename")
          ELSE CompactReturn(files, ErrCompactRename, "rename failed")
    /\ UNCHANGED <<s, tx, written>>

\* ----------------------------------------------------------- specifications
MaxStored == 2

PutKeys == StrOver({65, 97}, MaxKeyLen)
ScanWords == StrOver(Runes, MaxKeyLen)

\* the encodings of the records of rs
Encodings(rs) == UNION {Serializations(r) : r \in rs}

\* the database files that hold at most n keys of ks, each with a value of vs
Stored(ks, vs, n) ==
    {[exists |-> TRUE, bucket |-> TRUE, kv |-> kv] :
        kv \in UNION {[d -> vs] : d \in {d \in SUBSET ks : Cardinality(d) <= n}}}

\* the store: open, put, get, search, close
Next ==
    \/ \E readOnly \in BOOLEAN : NewDBStore(readOnly)
    \/ Close
    \/ \E key \in PutKeys : Get(key)
    \/ \E key \in PutKeys, valueMap \in Records, commits \in BOOLEAN :
          Put(key, valueMap, commits)
    \/ \E word \in PutKeys, maxDistance \in 0..MaxDist : FindSimilar(word, maxDistance)

Spec == Init /\ [][Next]_vars

\* bulk load into a store of an earlier run, with a reader beside it
InitLoad == \E db \in Stored(PutKeys \ {<<>>}, Encodings(Records), MaxStored) : InitWith(db)

NextLoad ==
    \/ \E readOnly \in BOOLEAN : NewDBStore(readOnly)
    \/ \E key \in PutKeys : Get(key)
    \/ \E csv \in CsvFiles : ImportFromCSV(csv)
    \/ ImportRow
    \/ ImportCommit

SpecLoad == InitLoad /\ [][NextLoad]_vars

\* bulk load from sources whose reads may keep failing; a call that has
\* started goes on running
ReadLines == {Line(<<<<97>>, <<49>>>>), BadLine}
ReadCsvFiles ==
    {[exists |-> TRUE, lines |-> <<HeaderLine>> \o rows, eof |-> eof] :
        rows \in UNION {[1..i -> ReadLines] : i \in 0..MaxRows}, eof \in BOOLEAN}

InitRead == \E db \in {EmptyDB} \cup Stored({<<97>>}, Encodings(Records), 1) : InitWith(db)

NextRead ==
    \/ NewDBStore(FALSE)
    \/ \E csv \in ReadCsvFiles : ImportFromCSV(csv)
    \/ ImportRow
    \/ ImportCommit
    \/ ImportReadError

SpecRead ==
    /\ InitRead /\ [][NextRead]_vars
    /\ WF_vars(ImportRow) /\ WF_vars(ImportCommit) /\ WF_vars(ImportReadError)

\* compaction of a store of an earlier run, then a fresh open
InitCompact ==
    \E db \in Stored(PutKeys \ {<<>>}, Encodings(Records), MaxStored) : InitWith(db)

NextCompact ==
    \/ \E readOnly \in BOOLEAN : NewDBStore(readOnly)
    \/ Close
    \/ \E key \in PutKeys : Get(key)
    \/ \E tempDBPath \in {"", DefaultTempDBPath} : Compact(tempDBPath)
    \/ CompactOpenOriginal
    \/ CompactOpenTemp
    \/ CompactCopy
    \/ CompactCloseCopies
    \/ CompactRemove
    \/ CompactRename

SpecCompact == InitCompact /\ [][NextCompact]_vars

\* one handle through all its operations: a store of an earlier run, every
\* operation of DBStore on the key "a", a load of one row, and Compact
HandleKeys == {<<97>>}
HandleCsvFiles ==
    {[exists |-> FALSE, lines |-> <<>>, eof |-> TRUE],
     [exists |-> TRUE, lines |-> <<HeaderLine, Line(<<<<65>>, <<49>>>>)>>, eof |-> TRUE]}

InitHandle ==
    \E db \in {NoFile, EmptyDB} \cup Stored(HandleKeys, Encodings(Records), 1) :
        InitWith(db)

NextHandle ==
    \/ \E readOnly \in BOOLEAN : NewDBStore(readOnly)
    \/ Close
    \/ \E key \in HandleKeys : Get(key)
    \/ \E key \in HandleKeys, commits \in BOOLEAN : Put(key, GoMap(EmptyKV), commits)
    \/ \E word \in HandleKeys : FindSimilar(word, 1)
    \/ \E csv \in HandleCsvFiles : ImportFromCSV(csv)
    \/ ImportRow
    \/ ImportCommit
    \/ Compact("")
    \/ CompactOpenOriginal
    \/ CompactOpenTemp
    \/ CompactCopy
    \/ CompactCloseCopies
    \/ CompactRemove
    \/ CompactRename

SpecHandle == InitHandle /\ [][NextHandle]_vars

\* the suggestion scan over the stores of up to MaxScanKeys keys
ScanKeys == StrOver(Runes, MaxScanKeyLen) \ {<<>>}
ScanRecords ==
    {GoMap(EmptyKV), GoMap([f \in {FrqField} |-> <<49>>]),
     GoMap([f \in {FrqField} |-> <<50>>])}

InitFind == \E db \in Stored(ScanKeys, Encodings(ScanRecords), MaxScanKeys) : InitWith(db)

NextFind ==
    \/ NewDBStore(TRUE)
    \/ \E word \in ScanWords, maxDistance \in 1..MaxDist : FindSimilar(word, maxDistance)

SpecFind == InitFind /\ [][NextFind]_vars

\* the suggestion scan for one term over the subsets of one store, in which
\* more keys qualify than the scan collects
MaxScanDist == 2
\* "a"
ScanTerm == <<97>>
FrqRecord(v) == GoMap([f \in {FrqField} |-> v])
Encoded(r) == CHOOSE b \in Serializations(r) : TRUE
\* a value gob cannot decode: one entry announced, none sent
CorruptValue == <<1>>
\* "a\u00e9", "b" .. "n" and "bc" with frq "1", "2", "x", no frq, or no record
ScanEntries ==
    {<<<<97, 233>>, Encoded(FrqRecord(<<49>>))>>,
     <<<<98>>, Encoded(FrqRecord(<<50>>))>>,
     <<<<98, 99>>, Encoded(GoMap(EmptyKV))>>,
     <<<<99>>, Encoded(FrqRecord(<<49>>))>>,
     <<<<100>>, Encoded(FrqRecord(<<120>>))>>,
     <<<<101>>, CorruptValue>>,
     <<<<102>>, Encoded(FrqRecord(<<50>>))>>,
     <<<<103>>, Encoded(GoMap(EmptyKV))>>,
     <<<<104>>, Encoded(FrqRecord(<<49>>))>>,
     <<<<105>>, Encoded(FrqRecord(<<50>>))>>,
     <<<<106>>, Encoded(FrqRecord(<<49>>))>>,
     <<<<107>>, Encoded(FrqRecord(<<50>>))>>,
     <<<<108>>, Encoded(FrqRecord(<<49>>))>>,
     <<<<109>>, Encoded(FrqRecord(<<49>>))>>,
     <<<<110>>, Encoded(GoMap(EmptyKV))>>}
ScanStore ==
    [k \in {e[1] : e \in ScanEntries} |-> (CHOOSE e \in ScanEntries : e[1] = k)[2]]

\* "h" .. "n", stored together or not at all
ScanTail == {k \in DOMAIN ScanStore : Len(k) = 1 /\ k[1] >= 104}

InitScan ==
    \E ks \in SUBSET (DOMAIN ScanStore \ ScanTail), tail \in {{}, ScanTail} :
        InitWith([exists |-> TRUE, bucket |-> TRUE,
                  kv |-> [k \in ks \cup tail |-> ScanStore[k]]])

NextScan ==
    \/ NewDBStore(TRUE)
    \/ \E maxDistance \in 1..MaxScanDist : FindSimilar(ScanTerm, maxDistance)

SpecScan == InitScan /\ [][NextScan]_vars

\* runs of the ne tool on the stores of earlier runs
NeTerms == StrOver({65, 97}, MaxScanKeyLen)
InitNe ==
    \E db \in {NoFile, EmptyDB} \cup
               Stored(NeTerms \ {<<>>}, Encodings(ScanRecords), MaxStored) :
        InitWith(db)

NextNe == \E term \in NeTerms : NeAction(term)

SpecNe == InitNe /\ [][NextNe]_vars

\* the codec on its own: every record over two fields, and the nil map
CodecValues == {<<>>, <<49>>, <<49, 50>>, <<120>>, <<233>>}
CodecRecords ==
    {NilMap} \cup
    {GoMap(kv) : kv \in UNION {[d -> CodecValues] : d \in SUBSET {FrqField, DefField}}}

NextCodec ==
    \/ \E data \in CodecRecords : Serialize(data)
    \/ DeserializeSerialized

SpecCodec == InitWith(NoFile) /\ [][NextCodec]_vars

\* ------------------------------------------------------------ claims, store
\* the map a caller reads back for a record it put: the same entries, never nil
SameEntries(got, put) == ~got.isNil /\ got.kv = put.kv

\* C1: a Get on an open store for a key that was put returns no error,
\* found = true and the record of the most recent successful Put of that key,
\* whatever was put before under the key and whatever was put under others.
PutThenGet ==
    (ret.op = "Get" /\ ret.key \in DOMAIN written /\ s.db = "open")
        => (ret.err = NoErr /\ ret.found /\ SameEntries(ret.value, written[ret.key].rec))

\* a Get that found an overwritten key while another key is stored as well
PutThenGetWitness ==
    /\ ret.op = "Get" /\ ret.found
    /\ written[ret.key].over
    /\ Cardinality(DOMAIN written) >= 2
    /\ DefField \in DOMAIN ret.value.kv

\* C2, as stated: Get matches keys case-insensitively, so a Get for a key that
\* differs only in letter case from a key that was put finds that record.
CaseInsensitiveGet ==
    (ret.op = "Get" /\ ret.err = NoErr)
        => \A k \in DOMAIN written :
              ToLower(k) = ToLower(ret.key)
                  => (ret.found /\ SameEntries(ret.value, written[k].rec))

\* C2, amended: Put and Get match keys byte for byte.  A Get for a key that
\* differs in letter case from a stored key misses unless that very key was
\* put, and then it returns the record put under that very key.
ExactKeyGet ==
    (ret.op = "Get" /\ ret.err = NoErr)
        => \A k \in DOMAIN written :
              (ToLower(k) = ToLower(ret.key) /\ k # ret.key)
                  => IF ret.key \in DOMAIN written
                     THEN ret.found /\ SameEntries(ret.value, written[ret.key].rec)
                     ELSE ~ret.found /\ ret.value = NilMap

\* "A" is stored and a Get of "a" missed
ExactKeyGetWitness ==
    /\ ret.op = "Get" /\ ret.err = NoErr /\ ~ret.found
    /\ ret.key = <<97>>
    /\ <<65>> \in DOMAIN written

RoundTrip ==
    ret.op = "Deserialize"
        => (/\ ret.err = NoErr
            /\ ~ret.value.isNil
            /\ ret.value.kv = ret.arg.kv
            /\ (ret.arg \in {NilMap, GoMap(EmptyKV)} => ret.value = GoMap(EmptyKV)))

\* the nil map went through the codec and came back as the empty map
RoundTripWitness ==
    ret.op = "Deserialize" /\ ret.arg = NilMap /\ ret.value = GoMap(EmptyKV)

\* ------------------------------------------------------ claims, FindSimilar
\* the candidate FindSimilar builds for a stored key
StoredSuggestion(k) ==
    Suggestion(k, Deserialize(files[DefaultDBPath].kv[k]).value)

\* the keys the scan of the last FindSimilar collected
CollectedWords ==
    LET c == Collected(files[DefaultDBPath], ret.key, ret.n)
    IN  {c[i].word : i \in 1..Len(c)}

ReturnedWords == {ret.words[i] : i \in 1..Len(ret.words)}

Searched == ret.op = "FindSimilar" /\ ret.err = NoErr

\* C5: every key FindSimilar(term, maxDistance) returns is a key of the store
\* at edit distance d from term with 0 < d <= maxDistance; the term itself is
\* never returned.
SimilarWithinDistance ==
    Searched
        => \A w \in ReturnedWords :
              /\ w \in DOMAIN files[DefaultDBPath].kv
              /\ ComputeDistance(ret.key, w) > 0
              /\ ComputeDistance(ret.key, w) <= ret.n
              /\ w # ret.key

\* the term is stored, and the search returned other keys
SimilarWithinDistanceWitness ==
    /\ Searched
    /\ ret.key \in DOMAIN files[DefaultDBPath].kv
    /\ ret.words # <<>>

\* a may stand before b: lower frq value first, the longer key first among equals
MayPrecede(a, b) == a.freq < b.freq \/ (a.freq = b.freq /\ a.len >= b.len)

\* C6: the returned keys are in ascending order of frq value, ties in
\* descending order of key length, and no collected candidate that was left
\* out ranks strictly better than a returned one.
RankedOrder ==
    Searched
        => /\ \A i, j \in 1..Len(ret.words) :
                 i < j => MayPrecede(StoredSuggestion(ret.words[i]),
                                     StoredSuggestion(ret.words[j]))
           /\ \A c \in CollectedWords \ ReturnedWords : \A r \in ReturnedWords :
                 MayPrecede(StoredSuggestion(r), StoredSuggestion(c))

\* three keys returned, one candidate left out, two frq values among the
\* returned and a tie decided by length
RankedOrderWitness ==
    /\ Searched
    /\ Len(ret.words) = 3
    /\ CollectedWords \ ReturnedWords # {}
    /\ \E i, j \in 1..3 :
          StoredSuggestion(ret.words[i]).freq < StoredSuggestion(ret.words[j]).freq
    /\ \E i, j \in 1..3 :
          /\ StoredSuggestion(ret.words[i]).freq = StoredSuggestion(ret.words[j]).freq
          /\ StoredSuggestion(ret.words[i]).len > StoredSuggestion(ret.words[j]).len

\* the keys of the store that qualify for the last search
QualifyingKeys ==
    {k \in DOMAIN files[DefaultDBPath].kv :
        ComputeDistance(ret.key, k) > 0 /\ ComputeDistance(ret.key, k) <= ret.n}

\* C7: FindSimilar on an open store returns no error and exactly min(3, n)
\* distinct keys, n the number of candidates the scan collected, all of them
\* qualifying keys; nothing when no key qualifies.
TopThree ==
    (ret.op = "FindSimilar" /\ s.db = "open" /\ files[DefaultDBPath].bucket)
        => /\ ret.err = NoErr
           /\ Len(ret.words) =
                 (IF Cardinality(CollectedWords) >= 3 THEN 3
                  ELSE Cardinality(CollectedWords))
           /\ Cardinality(ReturnedWords) = Len(ret.words)
           /\ ReturnedWords \subseteq QualifyingKeys
           /\ (QualifyingKeys = {} => ret.words = <<>>)

\* four candidates collected, three returned
TopThreeWitness ==
    Searched /\ Cardinality(CollectedWords) >= 4 /\ Len(ret.words) = 3

\* the cursor loop without the length check of line 194
RECURSIVE ScanLoopUnpruned(_, _, _, _, _)
ScanLoopUnpruned(ks, kv, word, maxDistance, suggestions) ==
    IF ks = <<>> THEN suggestions
    ELSE IF Len(suggestions) > ScanLimit THEN suggestions
    ELSE IF Qualifies(ComputeDistance(word, Head(ks)), maxDistance)
    THEN LET d == Deserialize(kv[Head(ks)])
         IN  IF d.err
             THEN ScanLoopUnpruned(Tail(ks), kv, word, maxDistance, suggestions)
             ELSE ScanLoopUnpruned(Tail(ks), kv, word, maxDistance,
                                   Append(suggestions, Suggestion(Head(ks), d.value)))
    ELSE ScanLoopUnpruned(Tail(ks), kv, word, maxDistance, suggestions)

\* C8: the length check never skips a stored key whose edit distance to the
\* term is at most maxDistance, so FindSimilar returns what the same scan
\* returns without the length check.
PruningLossless ==
    Searched
        => /\ \A k \in DOMAIN files[DefaultDBPath].kv :
                 ComputeDistance(ret.key, k) <= ret.n
                     => ~LengthPruned(k, ret.key, ret.n)
           /\ ret.words =
                 LimitWords(SortSlice(
                     ScanLoopUnpruned(CursorKeys(DOMAIN files[DefaultDBPath].kv),
                                      files[DefaultDBPath].kv, ret.key, ret.n, <<>>)))

\* ------------------------------------------------------- claims, bulk load
\* C9, as stated: after a bulk load whose transaction failed, a Get for any
\* row of that source returns found = false.
FailedLoadHidesRows ==
    (/\ ret.op = "Get" /\ ret.err = NoErr
     /\ tx.outcome = "rolled back" /\ ret.key \in DOMAIN tx.wrote)
        => ~ret.found

\* C9, amended: the rows of one load are written in one write transaction.
\* While it runs and after it failed the file holds what it held before the
\* load, and a Get returns what it returned before the load (found = false
\* for a key the store did not hold); after the commit the file holds every
\* row the load wrote and a Get of such a key returns the row's record.
AtomicLoad ==
    /\ (tx.active \/ tx.outcome = "rolled back")
          => /\ files[DefaultDBPath].kv = tx.before
             /\ (ret.op = "Get" /\ ret.err = NoErr)
                   => /\ ret.found = (ret.key \in DOMAIN tx.before)
                      /\ ret.found => ret.value = Deserialize(tx.before[ret.key]).value
    /\ tx.outcome = "committed"
          => /\ \A k \in DOMAIN tx.wrote :
                   /\ k \in DOMAIN files[DefaultDBPath].kv
                   /\ SameEntries(Deserialize(files[DefaultDBPath].kv[k]).value,
                                  tx.wrote[k])
             /\ \A k \in DOMAIN files[DefaultDBPath].kv \ DOMAIN tx.wrote :
                   k \in DOMAIN tx.before /\ files[DefaultDBPath].kv[k] = tx.before[k]
             /\ (ret.op = "Get" /\ ret.err = NoErr /\ ret.key \in DOMAIN tx.wrote)
                   => ret.found /\ SameEntries(ret.value, tx.wrote[ret.key])

\* a load that wrote rows failed at its commit, and a Get of a row's key that
\* the store held before still finds the earlier record
AtomicLoadWitness ==
    /\ tx.outcome = "rolled back"
    /\ ret.op = "Get" /\ ret.err = NoErr
    /\ ret.key \in DOMAIN tx.wrote
    /\ ret.found
    /\ ~SameEntries(ret.value, tx.wrote[ret.key])

\* ------------------------------------------------------ claims, compaction
\* the (key, decoded record) pairs a database file exposes
Pairs(db) == {<<k, Deserialize(db.kv[k])>> : k \in DOMAIN db.kv}

\* C10: after a successful Compact the file at the original path exposes the
\* pairs it exposed before, no file is left at the temp path, and a Get on a
\* store opened afterwards returns what the store held before the compaction.
CompactKeepsContent ==
    cpt.done = "ok"
        => /\ files[DefaultDBPath].exists
           /\ Pairs(files[DefaultDBPath]) = Pairs(cpt.before)
           /\ ~files[DefaultTempDBPath].exists
           /\ (ret.op = "Get" /\ s.db = "open")
                 => /\ ret.err = NoErr
                    /\ ret.found = (ret.key \in DOMAIN cpt.before.kv)
                    /\ ret.found
                          => ret.value = Deserialize(cpt.before.kv[ret.key]).value

\* a store opened after a successful compaction found a key
CompactKeepsContentWitness ==
    /\ cpt.done = "ok"
    /\ s.db = "open"
    /\ ret.op = "Get" /\ ret.found

\* C11: whenever Compact returns, with success or with any failure, a file
\* holding the complete content the store had before the call exists at the
\* original path or at the temp path.
CompactNeverLosesData ==
    (ret.op = "Compact" /\ cpt.before.exists)
        => \E p \in {DefaultDBPath, DefaultTempDBPath} :
              files[p].exists /\ Pairs(files[p]) = Pairs(cpt.before)

\* the steps of the last Compact that ran, as a set
Steps == {cpt.trace[i] : i \in 1..Len(cpt.trace)}

\* C12: when Compact returns a failure of one of its steps 1-5, the original
\* file is at its path with the content it had and no file is at the temp path.
EarlyFailureCleansUp ==
    (ret.op = "Compact" /\
     ret.err \in {ErrCompactClose, ErrCompactOpenOriginal, ErrCompactOpenTemp,
                  ErrCompactCopy, ErrCompactCloseTemp})
        => /\ files[DefaultDBPath] = cpt.before
           /\ ~files[DefaultTempDBPath].exists

\* C13, as stated: a failure of step 6 or of step 7 is tagged "manual
\* recovery", a failure of an earlier step is not.
LateFailuresTagged ==
    (ret.op = "Compact" /\ ret.err \notin {NoErr, ErrCompactClosed})
        => (ManualRecoveryTagged(ret.err)
               <=> Steps \cap {"remove failed", "rename failed"} # {})

\* C13, amended: a failure is tagged "manual recovery" exactly when it
\* occurs after the original file was deleted (the rename of step 7); the
\* failure of the deletion itself (step 6), of every earlier step and of the
\* guard is not tagged.
ManualRecoveryTag ==
    (ret.op = "Compact" /\ ret.err # NoErr)
        => (ManualRecoveryTagged(ret.err)
               <=> (ret.err # ErrCompactClosed /\ "remove" \in Steps))

\* the rename failed after the original was removed
ManualRecoveryTagWitness ==
    /\ ret.op = "Compact"
    /\ ManualRecoveryTagged(ret.err)
    /\ "rename failed" \in Steps
    /\ ~files[DefaultDBPath].exists

\* --------------------------------------------------- claims, handle state
\* C14: a use of the handle after Compact returned on it (Get, Put,
\* FindSimilar, ImportFromCSV) is reported as an error and is not a crash.
UseAfterCompactIsError ==
    (s.db = "nil" /\ cpt.pc = "idle" /\
     ret.op \in {"Get", "Put", "FindSimilar", "ImportFromCSV"})
        => ret.err \notin {NoErr, ErrPanic}

\* C15: Close on a store that is already closed, by an earlier Close or by
\* Compact, returns no error and changes neither the handle nor the files.
CloseIdempotent ==
    [][(Close /\ s.db \in {"closed", "nil"})
          => (ret'.err = NoErr /\ s' = s /\ files' = files)]_vars

\* Close returned on a handle that Compact had closed
CloseIdempotentWitness ==
    /\ ret.op = "Close"
    /\ s.db = "nil"
    /\ cpt.done # "never"

\* ------------------------------------------------------- claims, ne tool
\* C16: the tool reports "not found" only when FindSimilar returns no
\* suggestion for the term; with a suggestion it shows the suggested entry.
MissAsksForSuggestions ==
    (ret.op = "ne" /\ ret.out = "not found")
        => FindSimilarView(files[DefaultDBPath], ret.key, 1).words = <<>>

\* ------------------------------------------------- claims, read-only open
\* C17: opening read-only a file whose bucket does not exist succeeds and
\* creates no bucket, and every Get and FindSimilar on the store so opened
\* fails with the bucket-not-found error.
ReadOnlyNoBucket ==
    /\ []((s.db = "open" /\ s.readOnly /\ ~files[DefaultDBPath].bucket /\
           ret.op \in {"Get", "FindSimilar"})
             => (ret.err = ErrBucketNotFound /\ ~ret.found /\ ret.words = <<>>))
    /\ [][(s.db # "open" /\ s'.db = "open" /\ s'.readOnly)
             => (ret'.err = NoErr /\ files' = files)]_vars

\* a search on a store opened read-only on a file without the bucket
ReadOnlyNoBucketWitness ==
    /\ s.db = "open" /\ s.readOnly
    /\ files[DefaultDBPath].exists /\ ~files[DefaultDBPath].bucket
    /\ ret.op = "FindSimilar"
    /\ ret.err = ErrBucketNotFound

\* ------------------------------------------------ claims, rows of a load
\* The last load that ran its read loop has returned; tx.source holds the
\* lines of its CSV file, the header first.
Finished ==
    ret.op = "ImportFromCSV" /\ ~tx.active /\ ret.err \in {NoErr, ErrTransaction}

Header == Head(tx.source).fields
Headword(i) == tx.source[i].fields[1]

\* the data rows the load was to write: the line parses, has as many fields
\* as the header, and its lowercased headword is a key the engine accepts
PutRows ==
    {i \in 2..Len(tx.source) :
        /\ ~tx.source[i].bad
        /\ Len(tx.source[i].fields) = Len(Header)
        /\ Headword(i) # <<>>}

\* the well-formed rows whose key the engine rejects (the empty key)
RejectedRows ==
    {i \in 2..Len(tx.source) :
        /\ ~tx.source[i].bad
        /\ Len(tx.source[i].fields) = Len(Header)
        /\ Headword(i) = <<>>}

\* the last row to write that has the headword of row i, letter case aside
LastOf(i) ==
    CHOOSE j \in PutRows :
        /\ ToLower(Headword(j)) = ToLower(Headword(i))
        /\ \A j2 \in PutRows :
              ToLower(Headword(j2)) = ToLower(Headword(i)) => j2 <= j

StoreHolds(key, i) ==
    /\ key \in DOMAIN files[DefaultDBPath].kv
    /\ SameEntries(Deserialize(files[DefaultDBPath].kv[key]).value,
                   RowValueMap(Header, tx.source[i].fields))

\* C18, as stated: the count is the number of rows written, and every counted
\* row's record is in the store once the call has returned.
CountedRowsStored ==
    Finished
        => /\ ret.n = Cardinality(PutRows)
           /\ \A i \in PutRows : StoreHolds(ToLower(Headword(i)), i)

\* C18, amended: the count is the number of rows the load put into its
\* transaction, skipped rows not counted (0 when the load fails before its
\* transaction).  When the load returns no error every counted row's key is in
\* the store with the record of the last counted row of that key; when it
\* returns the transaction error the count is returned all the same and the
\* store holds what it held before.
CountOfRowsPut ==
    /\ (ret.op = "ImportFromCSV" /\ ret.err \notin {NoErr, ErrTransaction})
          => ret.n = 0
    /\ Finished
          => /\ ret.n = Cardinality(PutRows)
             /\ ret.err = NoErr
                   => \A i \in PutRows : StoreHolds(ToLower(Headword(i)), LastOf(i))
             /\ ret.err = ErrTransaction
                   => files[DefaultDBPath].kv = tx.before

\* a load that skipped a row and counted another returned without error
CountOfRowsPutWitness ==
    /\ Finished /\ ret.err = NoErr
    /\ ret.n >= 1
    /\ ret.n < Len(tx.source) - 1

\* C19: every key a load wrote is the lowercase form of a row's column 0 and
\* equals its own lowercase form; rows whose headwords differ only in letter
\* case end in one entry, under the lowercase key, with the later row's record.
LoadKeysLowercase ==
    /\ \A k \in DOMAIN tx.wrote : ToLower(k) = k
    /\ Finished
          => /\ DOMAIN tx.wrote = {ToLower(Headword(i)) : i \in PutRows}
             /\ ret.err = NoErr
                   => /\ \A k \in DOMAIN files[DefaultDBPath].kv :
                            (k \notin DOMAIN tx.before \/
                             files[DefaultDBPath].kv[k] # tx.before[k])
                               => k \in {ToLower(Headword(i)) : i \in PutRows}
                      /\ \A i, j \in PutRows :
                            (i < j /\ Headword(i) # Headword(j) /\
                             ToLower(Headword(i)) = ToLower(Headword(j)))
                               => /\ StoreHolds(ToLower(Headword(j)), LastOf(j))
                                  /\ tx.wrote[ToLower(Headword(i))] =
                                        RowValueMap(Header, tx.source[LastOf(j)].fields)

\* the rows "A" and "a" were loaded into a store that held neither: one
\* entry "a" with the record of the second row
LoadKeysLowercaseWitness ==
    /\ Finished /\ ret.err = NoErr
    /\ Len(tx.source) = 3
    /\ PutRows = {2, 3}
    /\ Headword(2) = <<65>> /\ Headword(3) = <<97>>
    /\ DOMAIN files[DefaultDBPath].kv = {<<97>>}
    /\ StoreHolds(<<97>>, 3)

\* C20, as stated: when the engine fails to write a row, the load returns an
\* error and none of its rows is committed.
RejectedRowFailsLoad ==
    (Finished /\ RejectedRows # {})
        => /\ ret.err # NoErr
           /\ files[DefaultDBPath].kv = tx.before

\* C20, amended: a row the engine rejects is skipped and not counted; the
\* load goes on with the rows after it and commits the others.  The load
\* fails as a whole, with nothing committed, only when its transaction fails.
RejectedRowSkipped ==
    (Finished /\ RejectedRows # {})
        => /\ ret.n = Cardinality(PutRows)
           /\ DOMAIN tx.wrote = {ToLower(Headword(i)) : i \in PutRows}
           /\ <<>> \notin DOMAIN files[DefaultDBPath].kv
           /\ tx.outcome = "committed"
                 => /\ ret.err = NoErr
                    /\ \A i \in PutRows : ToLower(Headword(i)) \in DOMAIN files[DefaultDBPath].kv
           /\ tx.outcome = "rolled back"
                 => /\ ret.err = ErrTransaction
                    /\ files[DefaultDBPath].kv = tx.before

\* a load with a rejected row before a good row committed the good row
RejectedRowSkippedWitness ==
    /\ Finished /\ ret.err = NoErr
    /\ Len(tx.source) = 3
    /\ RejectedRows = {2} /\ PutRows = {3}
    /\ StoreHolds(ToLower(Headword(3)), 3)

\* ---------------------------------------------- claims, rows and headers
\* the rows that parse, have a headword the engine accepts, and a column
\* count other than the header's
RaggedRows ==
    {i \in 2..Len(tx.source) :
        /\ ~tx.source[i].bad
        /\ Len(tx.source[i].fields) >= 1
        /\ Len(tx.source[i].fields) # Len(Header)
        /\ Headword(i) # <<>>}

\* C21: a row with more or with fewer columns than the header is written,
\* with the fields of the columns that header and row share.
RaggedRowsWritten ==
    (Finished /\ ret.err = NoErr)
        => \A i \in RaggedRows :
              (\A j \in (PutRows \cup RaggedRows) :
                  ToLower(Headword(j)) = ToLower(Headword(i)) => j <= i)
                 => StoreHolds(ToLower(Headword(i)), i)

\* the rows on which reader.Read reports an error
ParseFailed ==
    {i \in 2..Len(tx.source) :
        tx.source[i].bad \/ Len(tx.source[i].fields) # Len(Header)}

\* C22: a row that fails to parse is skipped and the load goes on: the row
\* is not counted and writes nothing, every well-formed row before and after
\* it is written, and they are in the store when the transaction commits.
ParseFailureSkipped ==
    (Finished /\ ParseFailed # {})
        => /\ ret.n = Cardinality(PutRows)
           /\ DOMAIN tx.wrote = {ToLower(Headword(i)) : i \in PutRows}
           /\ tx.outcome = "committed"
                 => /\ ret.err = NoErr
                    /\ \A i \in PutRows : StoreHolds(ToLower(Headword(i)), LastOf(i))
                    /\ \A k \in DOMAIN files[DefaultDBPath].kv \ DOMAIN tx.wrote :
                          k \in DOMAIN tx.before /\
                          files[DefaultDBPath].kv[k] = tx.before[k]

\* a load whose first row does not parse committed its second row
ParseFailureSkippedWitness ==
    /\ Finished /\ ret.err = NoErr
    /\ Len(tx.source) = 3
    /\ tx.source[2].bad
    /\ PutRows = {3}
    /\ ret.n = 1
    /\ StoreHolds(ToLower(Headword(3)), 3)

\* the sources that exist and have no header row or a header without a column
HeaderlessCsvFiles ==
    {csv \in CsvFiles :
        csv.exists /\ (csv.lines = <<>> \/ Len(Head(csv.lines).fields) < 1)}

\* C23: a load of a source without a header row, or with a header without
\* a column, fails with count 0 before it opens a transaction, and the files
\* are unchanged.
HeaderlessLoadFails ==
    [][\A csv \in HeaderlessCsvFiles :
          ImportFromCSV(csv)
             => /\ ret'.op = "ImportFromCSV"
                /\ ret'.err \in {ErrCsvEmpty, ErrCsvHeader}
                /\ ret'.n = 0
                /\ ~tx'.active /\ tx' = tx
                /\ files' = files]_vars

\* a load of an empty source failed on a store that holds entries
HeaderlessLoadFailsWitness ==
    /\ ret.op = "ImportFromCSV"
    /\ ret.err = ErrCsvEmpty
    /\ ret.n = 0
    /\ ~tx.active
    /\ DOMAIN files[DefaultDBPath].kv # {}

\* --------------------------------------------- claims, the suggestion scan
\* the qualifying keys whose value decodes, the candidates of the last search
QualifyingCandidates ==
    {k \in QualifyingKeys : ~Deserialize(files[DefaultDBPath].kv[k]).err}

\* the candidates of ks in key order
SuggestionsOf(ks) ==
    LET c == CursorKeys(ks) IN [i \in 1..Len(c) |-> StoredSuggestion(c[i])]

\* C24: the scan collects at most 11 candidates, no key after the 11th
\* qualifying key in key order is returned, and when at most 11 keys qualify
\* the result is the best 3 of all of them.
CapAtEleven ==
    Searched
        => /\ Cardinality(CollectedWords) <= ScanLimit + 1
           /\ \A w \in ReturnedWords :
                 Cardinality({k \in QualifyingCandidates : StrLess(k, w)}) <= ScanLimit
           /\ Cardinality(QualifyingCandidates) <= ScanLimit + 1
                 => ret.words = LimitWords(SortSlice(SuggestionsOf(QualifyingCandidates)))

\* C25: once the scan has found a match at distance d below the maximum
\* distance, d is the maximum for the keys scanned after it: no returned key
\* is farther from the term than a match scanned before it.
DynamicThreshold ==
    Searched
        => \A w \in ReturnedWords : \A k \in CollectedWords :
              StrLess(k, w)
                 => ComputeDistance(ret.key, w) <= ComputeDistance(ret.key, k)

\* an integer literal as strconv.Atoi reads it: digits after an optional sign
IsIntLiteral(str) ==
    IsDigits(str) \/ (str # <<>> /\ Head(str) \in {43, 45} /\ IsDigits(Tail(str)))

\* the stored keys whose value does not decode
CorruptKeys ==
    {k \in DOMAIN files[DefaultDBPath].kv : Deserialize(files[DefaultDBPath].kv[k]).err}

\* the frq field of the record stored under k, <<>> when it has none
StoredFrq(k) ==
    LET v == Deserialize(files[DefaultDBPath].kv[k]).value.kv
    IN  IF FrqField \in DOMAIN v THEN <<v[FrqField]>> ELSE <<>>

NoFrq(k) == k \notin CorruptKeys /\ StoredFrq(k) = <<>>
NonNumericFrq(k) ==
    k \notin CorruptKeys /\ StoredFrq(k) # <<>> /\ ~IsIntLiteral(StoredFrq(k)[1])
PositiveFrq(k) ==
    /\ k \notin CorruptKeys /\ StoredFrq(k) # <<>>
    /\ IsDigits(StoredFrq(k)[1]) /\ DigitsValue(StoredFrq(k)[1]) > 0

\* the store with frq "1" in every record that has no integer frq
WithValidFrq ==
    [files[DefaultDBPath] EXCEPT
        !.kv = [k \in DOMAIN @ |->
                   IF NoFrq(k) \/ NonNumericFrq(k)
                   THEN Encoded(FrqRecord(<<49>>)) ELSE @[k]]]

\* C26: a candidate without a frq field, or with a frq that is no integer
\* literal, is collected exactly when it would be with a valid frq, has the
\* frq value 0, and stands before every returned key with a positive frq.
FrqDefaultsToZero ==
    Searched
        => LET c == Collected(files[DefaultDBPath], ret.key, ret.n)
               v == Collected(WithValidFrq, ret.key, ret.n)
           IN  /\ [i \in 1..Len(c) |-> c[i].word] = [i \in 1..Len(v) |-> v[i].word]
               /\ \A i \in 1..Len(c) :
                     (NoFrq(c[i].word) \/ NonNumericFrq(c[i].word))
                        => /\ c[i].freq = 0
                           /\ \A j \in 1..Len(ret.words) :
                                 PositiveFrq(ret.words[j])
                                    => \E l \in 1..(j - 1) : ret.words[l] = c[i].word

\* a key without frq and a key with a non-numeric frq were returned before
\* a key with a positive frq
FrqDefaultsToZeroWitness ==
    /\ Searched
    /\ Len(ret.words) = 3
    /\ \E i, j \in 1..2 : NoFrq(ret.words[i]) /\ NonNumericFrq(ret.words[j])
    /\ PositiveFrq(ret.words[3])

\* C27: a stored value that fails to decode does not fail the scan: the
\* search returns no error, never returns the key of such a value, and
\* returns what it returns on the store without these entries.
CorruptSkipped ==
    (ret.op = "FindSimilar" /\ CorruptKeys # {})
        => /\ ret.err = NoErr
           /\ ReturnedWords \cap CorruptKeys = {}
           /\ ret.words =
                 FindSimilarView(
                     [files[DefaultDBPath] EXCEPT
                         !.kv = [k \in (DOMAIN @) \ CorruptKeys |-> @[k]]],
                     ret.key, ret.n).words

\* a qualifying key holds a corrupt value, the scan went past it and
\* collected as many candidates as it may
CorruptSkippedWitness ==
    /\ Searched
    /\ CorruptKeys \cap QualifyingKeys # {}
    /\ \E k \in CorruptKeys, w \in ReturnedWords : StrLess(k, w)
    /\ Cardinality(CollectedWords) = ScanLimit + 1

\* ----------------------------------------------- claims, Compact's order
\* the steps of the last Compact before its i-th
Before(i) == SubSeq(cpt.trace, 1, i - 1)

LoadTerminates == tx.active ~> ~tx.active

\* ------------------------------------------------ claims, the query path
\* C30: Get and FindSimilar leave the files, and with them the (key, value)
\* pairs of the store, as they are, whatever they return.
QueryNeverMutates ==
    [][((\E key \in PutKeys : Get(key)) \/
        (\E word \in PutKeys, maxDistance \in 0..MaxDist : FindSimilar(word, maxDistance)))
          => files' = files /\ written' = written]_vars

\* a query on a read-only handle returned an error over a store with entries
QueryNeverMutatesWitness ==
    /\ ret.op \in {"Get", "FindSimilar"}
    /\ ret.err # NoErr
    /\ s.readOnly
    /\ DOMAIN files[DefaultDBPath].kv # {}

====
